---------------------------- MODULE Spec2Model ----------------------------
(***************************************************************************)
(* A model of moonalloy's numeric core: Array (src/linalg/array.rs),       *)
(* Matrix (src/linalg/matrix.rs) and the Gauss-elimination solver          *)
(* (src/linalg/methods.rs).                                                *)
(*                                                                         *)
(* Elements are f64 in the source.  They are modelled as binary floating   *)
(* point numbers with a significand of Precision bits, round-to-nearest,   *)
(* ties-to-even, signed zeros, infinities and NaN.  The exponent is not    *)
(* bounded, so there is no overflow to infinity and no underflow; an       *)
(* infinity or a NaN arises only from an input or from a division by zero. *)
(* Indices are 0-based as in the source; element i of a buffer is the      *)
(* (i+1)-th element of the sequence that models it.                        *)
(***************************************************************************)
EXTENDS Integers, Sequences, FiniteSets, TLC

VARIABLES
    op,        \* the operation called last ("none" when no call is held)
    receiver,  \* its receiver (self, the first operand) before the call
    operand,   \* its second operand (other), or NONE
    arg,       \* its remaining arguments, or NONE
    out,       \* what it returned: a value, the receiver after a setter, or PANIC
    prev,      \* the call that produced the receiver, when the receiver is
               \* the result of the previous call; NONE otherwise
    pc,        \* "idle"; the phase of gauss_elimination: "ref", "back", "done";
               \* or the phase of a client program: "own", "derived", "stored"
    a,         \* row_echelon_form: the matrix being reduced
    h,         \* row_echelon_form: the pivot row cursor
    k,         \* row_echelon_form: the pivot column cursor
    heap,      \* the buffers in memory, by address: element buffers (of f64)
               \* and row buffers (of Arrays)
    vals       \* the Array and Matrix values a client holds, each a struct
               \* of sizes and of the address of its buffer

vars == <<op, receiver, operand, arg, out, prev, pc, a, h, k, heap, vals>>

\* Bits of significand of the modelled floating point format (53 in an f64).
Precision == 5

---------------------------------------------------------------------------
(* Floating point values and arithmetic (the f64 primitives the code uses) *)

RECURSIVE Pow2(_)
Pow2(n) == IF n <= 0 THEN 1 ELSE 2 * Pow2(n - 1)

RECURSIVE BitLen(_)
BitLen(m) == IF m = 0 THEN 0 ELSE 1 + BitLen(m \div 2)

Abs(i) == IF i < 0 THEN 0 - i ELSE i

NaN == [c |-> "nan", s |-> 0, m |-> 0, e |-> 0]
Inf(sgn) == [c |-> "inf", s |-> sgn, m |-> 0, e |-> 0]
Zero(sgn) == [c |-> "fin", s |-> sgn, m |-> 0, e |-> 0]

RECURSIVE Canon(_, _, _)
\* The finite value (-1)^sgn * m * 2^e with m > 0, in canonical form (m odd).
Canon(sgn, m, e) ==
    IF m % 2 = 0 THEN Canon(sgn, m \div 2, e + 1)
    ELSE [c |-> "fin", s |-> sgn, m |-> m, e |-> e]

\* (-1)^sgn * m * 2^e, m > 0, rounded to Precision bits, nearest, ties to even.
Round(sgn, m, e) ==
    LET bl == BitLen(m) IN
    IF bl <= Precision THEN Canon(sgn, m, e)
    ELSE LET sh   == bl - Precision
             q    == m \div Pow2(sh)
             r    == m % Pow2(sh)
             half == Pow2(sh - 1)
             up   == r > half \/ (r = half /\ q % 2 = 1)
         IN Canon(sgn, IF up THEN q + 1 ELSE q, e + sh)

\* The f64 nearest to the integer literal i.
FromInt(i) == IF i = 0 THEN Zero(0) ELSE Round(IF i < 0 THEN 1 ELSE 0, Abs(i), 0)

IsNaN(x) == x.c = "nan"
IsInf(x) == x.c = "inf"
IsFinite(x) == x.c = "fin"
IsZero(x) == x.c = "fin" /\ x.m = 0

Xor(p, q) == IF p = q THEN 0 ELSE 1

fneg(x) == IF IsNaN(x) THEN NaN ELSE [x EXCEPT !.s = 1 - x.s]

\* x + y
fadd(x, y) ==
    IF IsNaN(x) \/ IsNaN(y) THEN NaN
    ELSE IF IsInf(x) /\ IsInf(y) THEN (IF x.s = y.s THEN x ELSE NaN)
    ELSE IF IsInf(x) THEN x
    ELSE IF IsInf(y) THEN y
    ELSE IF x.m = 0 /\ y.m = 0 THEN Zero(IF x.s = 1 /\ y.s = 1 THEN 1 ELSE 0)
    ELSE IF x.m = 0 THEN y
    ELSE IF y.m = 0 THEN x
    ELSE LET e   == IF x.e < y.e THEN x.e ELSE y.e
             sx  == (IF x.s = 1 THEN -1 ELSE 1) * x.m * Pow2(x.e - e)
             sy  == (IF y.s = 1 THEN -1 ELSE 1) * y.m * Pow2(y.e - e)
             sum == sx + sy
         IN IF sum = 0 THEN Zero(0)
            ELSE Round(IF sum < 0 THEN 1 ELSE 0, Abs(sum), e)

\* x - y
fsub(x, y) == fadd(x, fneg(y))

\* x * y
fmul(x, y) ==
    IF IsNaN(x) \/ IsNaN(y) THEN NaN
    ELSE IF (IsInf(x) /\ IsZero(y)) \/ (IsZero(x) /\ IsInf(y)) THEN NaN
    ELSE IF IsInf(x) \/ IsInf(y) THEN Inf(Xor(x.s, y.s))
    ELSE IF x.m = 0 \/ y.m = 0 THEN Zero(Xor(x.s, y.s))
    ELSE Round(Xor(x.s, y.s), x.m * y.m, x.e + y.e)

\* x / y
fdiv(x, y) ==
    IF IsNaN(x) \/ IsNaN(y) THEN NaN
    ELSE IF IsInf(x) /\ IsInf(y) THEN NaN
    ELSE IF IsInf(x) THEN Inf(Xor(x.s, y.s))
    ELSE IF IsInf(y) THEN Zero(Xor(x.s, y.s))
    ELSE IF y.m = 0 THEN (IF x.m = 0 THEN NaN ELSE Inf(Xor(x.s, y.s)))
    ELSE IF x.m = 0 THEN Zero(Xor(x.s, y.s))
    ELSE LET sh  == Precision + 1 + BitLen(y.m)
             num == x.m * Pow2(sh)
             q   == num \div y.m
             r   == num % y.m
         IN Round(Xor(x.s, y.s), 2 * q + (IF r = 0 THEN 0 ELSE 1),
                  x.e - y.e - sh - 1)

\* x == y on f64: NaN equals nothing, the two zeros are equal.
feq(x, y) ==
    IF IsNaN(x) \/ IsNaN(y) THEN FALSE
    ELSE IF IsZero(x) /\ IsZero(y) THEN TRUE
    ELSE x = y

\* x < y on f64.
flt(x, y) ==
    IF IsNaN(x) \/ IsNaN(y) THEN FALSE
    ELSE IF IsZero(x) /\ IsZero(y) THEN FALSE
    ELSE IF IsInf(x) THEN x.s = 1 /\ ~(IsInf(y) /\ y.s = 1)
    ELSE IF IsInf(y) THEN y.s = 0
    ELSE IF x.m = 0 THEN y.s = 0
    ELSE IF y.m = 0 THEN x.s = 1
    ELSE IF x.s # y.s THEN x.s = 1
    ELSE LET tx  == x.e + BitLen(x.m)
             ty  == y.e + BitLen(y.m)
             e   == IF x.e < y.e THEN x.e ELSE y.e
             mlt == IF tx # ty THEN tx < ty
                    ELSE x.m * Pow2(x.e - e) < y.m * Pow2(y.e - e)
             mgt == IF tx # ty THEN tx > ty
                    ELSE x.m * Pow2(x.e - e) > y.m * Pow2(y.e - e)
         IN IF x.s = 0 THEN mlt ELSE mgt

\* x <= y on f64.
fle(x, y) == flt(x, y) \/ feq(x, y)

---------------------------------------------------------------------------
(* Outcomes that are not values *)

\* A fatal error: a failed assert! / assert_eq! or a slice index out of range.
PANIC == [panic |-> TRUE]
\* The value of an access outside an Array's buffer (never produced by
\* the bounds-checked accessors below).
OUT_OF_BUFFER == [oob |-> TRUE]
\* The absent operand, argument or result of a call.
NONE == [none |-> TRUE]
\* The result true of a check that otherwise fails fatally.
OK == [ok |-> TRUE]

\* slice[i] on a Rust slice: bounds-checked, fatal when i >= slice.len().
SliceIndex(slice, i) == IF i < Len(slice) THEN slice[i + 1] ELSE PANIC

---------------------------------------------------------------------------
(* Array: src/linalg/array.rs *)

\* struct Array { len, arr }: a record of len and of the buffer arr points to.
IsArray(v) == DOMAIN v = {"len", "arr"}

\* Array::from(slice)
Array_from(slice) == [len |-> Len(slice), arr |-> slice]

\* Array::of(val, len)
Array_of(val, len) == [len |-> len, arr |-> [i \in 1..len |-> val]]

\* Array::zeros(len)
Array_zeros(len) == Array_of(Zero(0), len)

\* Array::ones(len)
Array_ones(len) == Array_of(FromInt(1), len)

\* Array::len(&self)
Array_len(self) == self.len

\* Array::plus(&self, other)
Array_plus(self, other) ==
    IF Array_len(self) # Array_len(other) THEN PANIC
    ELSE LET result == [i \in 1..Array_len(self) |->
                            fadd(self.arr[i], other.arr[i])]
         IN [len |-> Len(result), arr |-> result]

\* A faulty Array::minus: the operands of the subtraction exchanged.
Array_minus_reversed(self, other) ==
    IF Array_len(self) # Array_len(other) THEN PANIC
    ELSE LET result == [i \in 1..Array_len(self) |->
                            fsub(other.arr[i], self.arr[i])]
         IN [len |-> Len(result), arr |-> result]

\* Array::minus(&self, other)
Array_minus(self, other) ==
    IF Array_len(self) # Array_len(other) THEN PANIC
    ELSE LET result == [i \in 1..Array_len(self) |->
                            fsub(self.arr[i], other.arr[i])]
         IN [len |-> Len(result), arr |-> result]

\* A faulty Array::mult: the + of plus left in place of the *.
Array_mult_adds(self, other) == Array_plus(self, other)

\* Array::mult(&self, other)
Array_mult(self, other) ==
    IF Array_len(self) # Array_len(other) THEN PANIC
    ELSE LET result == [i \in 1..Array_len(self) |->
                            fmul(self.arr[i], other.arr[i])]
         IN [len |-> Len(result), arr |-> result]

RECURSIVE IterSum(_, _, _)
\* v.iter().sum() continued from element i (0-based) with accumulator acc.
IterSum(v, i, acc) ==
    IF i >= Len(v) THEN acc ELSE IterSum(v, i + 1, fadd(acc, v[i + 1]))

\* Array::dotp(&self, other).  The sum starts from 0.0; a toolchain whose
\* f64 Sum starts from -0.0 differs only in the sign of a zero result.
Array_dotp(self, other) ==
    LET arr == Array_mult(self, other) IN
    IF arr = PANIC THEN PANIC ELSE IterSum(arr.arr, 0, Zero(0))

\* A faulty Array::get: no assert!, and a raw read in place of slice[index].
Array_get_unchecked(self, index) ==
    IF index < Len(self.arr) THEN self.arr[index + 1] ELSE OUT_OF_BUFFER

\* Array::get(&self, index)
Array_get(self, index) ==
    IF ~(index < Array_len(self)) THEN PANIC
    ELSE SliceIndex(self.arr, index)

\* Array::set(&mut self, val, index): the Array after the call, or PANIC.
Array_set(self, val, index) ==
    IF ~(index < Array_len(self)) THEN PANIC
    ELSE IF ~(index < Len(self.arr)) THEN PANIC
    ELSE [self EXCEPT !.arr[index + 1] = val]

\* <Array as Index<usize>>::index: self[i] read.
Array_index(self, i) ==
    IF ~(i < Array_len(self)) THEN PANIC
    ELSE SliceIndex(self.arr, i)

\* <Array as IndexMut<usize>>::index_mut followed by the store: self[index] = val.
Array_index_mut(self, val, index) ==
    IF ~(index < Array_len(self)) THEN PANIC
    ELSE IF ~(index < Len(self.arr)) THEN PANIC
    ELSE [self EXCEPT !.arr[index + 1] = val]

\* Array::scalar_add(&self, scalar)
Array_scalar_add(self, scalar) ==
    LET result == [i \in 1..Array_len(self) |-> fadd(scalar, self.arr[i])]
    IN [len |-> self.len, arr |-> result]

\* Array::scalar_sub(&self, scalar)
Array_scalar_sub(self, scalar) ==
    LET result == [i \in 1..Array_len(self) |-> fsub(self.arr[i], scalar)]
    IN [len |-> self.len, arr |-> result]

\* Array::scalar_mult(&self, scalar)
Array_scalar_mult(self, scalar) ==
    LET result == [i \in 1..Array_len(self) |-> fmul(scalar, self.arr[i])]
    IN [len |-> self.len, arr |-> result]

\* Array::scalar(&self, scal): every element multiplied by scal.  Called by
\* Matrix::scalar and by lib.rs, defined nowhere; modelled from the
\* specification.
Array_scalar(self, scal) ==
    [len |-> self.len, arr |-> [i \in 1..Array_len(self) |-> fmul(self.arr[i], scal)]]

\* Array::concat(&self, other)
Array_concat(self, other) ==
    LET result == self.arr \o other.arr
    IN [len |-> Len(result), arr |-> result]

RECURSIVE splice_from(_, _, _, _, _)
\* The loop of splice from i on: arr_slice[i - first] = self.get(i).  The
\* Array of the elements written so far, or PANIC.
splice_from(self, first, last, i, arr_slice) ==
    IF i >= last THEN arr_slice
    ELSE LET g == Array_get(self, i) IN
         IF g = PANIC THEN PANIC
         ELSE splice_from(self, first, last, i + 1,
                          Array_from(Append(arr_slice.arr, g)))

\* A faulty Array::splice: the copy starts at element 0, not at first.
Array_splice_from_start(self, first, last) ==
    IF ~(first < last) THEN PANIC
    ELSE splice_from(self, 0, last - first, 0, Array_from(<< >>))

\* Array::splice(&self, first, last)
Array_splice(self, first, last) ==
    IF ~(first < last) THEN PANIC
    ELSE splice_from(self, first, last, first, Array_from(<< >>))

RECURSIVE Array_eq_from(_, _, _)
Array_eq_from(self, other, i) ==
    IF i >= Array_len(self) THEN TRUE
    ELSE IF ~feq(self.arr[i + 1], other.arr[i + 1]) THEN FALSE
    ELSE Array_eq_from(self, other, i + 1)

\* <Array as PartialEq>::eq
Array_eq(self, other) ==
    IF Array_len(self) # Array_len(other) THEN FALSE
    ELSE Array_eq_from(self, other, 0)

---------------------------------------------------------------------------
(* Matrix: src/linalg/matrix.rs *)

IsMatrix(v) == DOMAIN v = {"rows", "cols", "arrays"}

RECURSIVE is_valid_slice_from(_, _, _)
is_valid_slice_from(slice, len, i) ==
    IF i >= Len(slice) THEN OK
    ELSE IF len # Array_len(slice[i + 1]) THEN PANIC
    ELSE is_valid_slice_from(slice, len, i + 1)

\* A faulty Matrix::is_valid_slice: the loop over the rows left out.
Matrix_is_valid_slice_unchecked(slice) ==
    IF SliceIndex(slice, 0) = PANIC THEN PANIC ELSE OK

\* Matrix::is_valid_slice(slice): OK (true) or PANIC.
Matrix_is_valid_slice(slice) ==
    IF SliceIndex(slice, 0) = PANIC THEN PANIC
    ELSE is_valid_slice_from(slice, Array_len(slice[1]), 1)

\* Matrix::new(slice)
Matrix_new(slice) ==
    IF Matrix_is_valid_slice(slice) = PANIC THEN PANIC
    ELSE [rows |-> Len(slice), cols |-> Array_len(slice[1]), arrays |-> slice]

\* Matrix::of(val, rows, cols)
Matrix_of(val, rows, cols) ==
    [rows |-> rows, cols |-> cols,
     arrays |-> [i \in 1..rows |-> Array_of(val, cols)]]

\* Matrix::zeros(rows, cols)
Matrix_zeros(rows, cols) == Matrix_of(Zero(0), rows, cols)

\* Matrix::ones(rows, cols)
Matrix_ones(rows, cols) == Matrix_of(FromInt(1), rows, cols)

\* A faulty Matrix::identity: every cell set to 1.0, not the diagonal only.
Matrix_identity_all_ones(len) == Matrix_ones(len, len)

\* Matrix::identity(len)
Matrix_identity(len) ==
    LET mat == Matrix_zeros(len, len) IN
    [mat EXCEPT !.arrays = [i \in 1..len |->
        Array_index_mut(mat.arrays[i], FromInt(1), i - 1)]]

\* Matrix::dimensions(&self)
Matrix_dimensions(self) == <<self.rows, self.cols>>

\* Building one of the rows of a result failed.
AnyPanic(seq) == \E i \in 1..Len(seq) : seq[i] = PANIC

\* A faulty Matrix::plus: the assert on the rows left out; the loop reads
\* the rows of other through a slice of other.rows Arrays.
Matrix_plus_cols_only(self, other) ==
    IF self.cols # other.cols THEN PANIC
    ELSE IF self.rows > other.rows THEN PANIC
    ELSE LET result == [i \in 1..self.rows |->
                          Array_plus(self.arrays[i], other.arrays[i])]
         IN IF AnyPanic(result) THEN PANIC
            ELSE [rows |-> self.rows, cols |-> self.cols, arrays |-> result]

\* Matrix::plus(&self, other)
Matrix_plus(self, other) ==
    IF self.cols # other.cols THEN PANIC
    ELSE IF self.rows # other.rows THEN PANIC
    ELSE LET result == [i \in 1..self.rows |->
                          Array_plus(self.arrays[i], other.arrays[i])]
         IN IF AnyPanic(result) THEN PANIC
            ELSE [rows |-> self.rows, cols |-> self.cols, arrays |-> result]

\* Matrix::minus(&self, other)
Matrix_minus(self, other) ==
    IF self.cols # other.cols THEN PANIC
    ELSE IF self.rows # other.rows THEN PANIC
    ELSE LET result == [i \in 1..self.rows |->
                          Array_minus(self.arrays[i], other.arrays[i])]
         IN IF AnyPanic(result) THEN PANIC
            ELSE [rows |-> self.rows, cols |-> self.cols, arrays |-> result]

\* Matrix::elem_mult(&self, other)
Matrix_elem_mult(self, other) ==
    IF self.cols # other.cols THEN PANIC
    ELSE IF self.rows # other.rows THEN PANIC
    ELSE LET result == [i \in 1..self.rows |->
                          Array_mult(self.arrays[i], other.arrays[i])]
         IN IF AnyPanic(result) THEN PANIC
            ELSE [rows |-> self.rows, cols |-> self.cols, arrays |-> result]

\* Matrix::scalar(&self, scal)
Matrix_scalar(self, scal) ==
    LET result == [i \in 1..self.rows |-> Array_scalar(self.arrays[i], scal)]
    IN [rows |-> self.rows, cols |-> self.cols, arrays |-> result]

RECURSIVE transpose_row(_, _, _, _)
\* The inner loop of transpose from j on: result[i].set(arr_slice[j].get(i), j)
transpose_row(self, i, j, row) ==
    IF j >= self.rows THEN row
    ELSE LET g == Array_get(self.arrays[j + 1], i) IN
         IF g = PANIC THEN PANIC
         ELSE LET r == Array_set(row, g, j) IN
              IF r = PANIC THEN PANIC ELSE transpose_row(self, i, j + 1, r)

\* A faulty Matrix::transpose: the result keeps the shape of self.
Matrix_transpose_same_shape(self) ==
    LET result == [i \in 1..self.cols |->
                     transpose_row(self, i - 1, 0, Array_zeros(self.rows))]
    IN IF AnyPanic(result) THEN PANIC
       ELSE [rows |-> self.rows, cols |-> self.cols, arrays |-> result]

\* Matrix::transpose(&self)
Matrix_transpose(self) ==
    LET result == [i \in 1..self.cols |->
                     transpose_row(self, i - 1, 0, Array_zeros(self.rows))]
    IN IF AnyPanic(result) THEN PANIC
       ELSE [rows |-> self.cols, cols |-> self.rows, arrays |-> result]

RECURSIVE mult_row(_, _, _, _, _)
\* The inner loop of mult from j on:
\* result[i].set(mat_slice1[j].dotp(&mat_slice2[i]), j)
mult_row(mat_t, other, i, j, row) ==
    IF j >= other.rows THEN row
    ELSE LET s1 == SliceIndex(mat_t.arrays, j)
             s2 == SliceIndex(other.arrays, i)
         IN IF s1 = PANIC \/ s2 = PANIC THEN PANIC
            ELSE LET d == Array_dotp(s1, s2) IN
                 IF d = PANIC THEN PANIC
                 ELSE LET r == Array_set(row, d, j) IN
                      IF r = PANIC THEN PANIC
                      ELSE mult_row(mat_t, other, i, j + 1, r)

\* Matrix::mult(&self, other)
Matrix_mult(self, other) ==
    IF self.rows # other.cols THEN PANIC
    ELSE LET mat_t == Matrix_transpose(self) IN
         IF mat_t = PANIC THEN PANIC
         ELSE LET result == [i \in 1..self.cols |->
                       mult_row(mat_t, other, i - 1, 0, Array_zeros(other.rows))]
              IN IF AnyPanic(result) THEN PANIC
                 ELSE [rows |-> other.rows, cols |-> self.cols,
                       arrays |-> result]

\* from_raw_parts_mut(self.arrays, self.rows)[i]
Matrix_row(self, i) == IF i < self.rows THEN self.arrays[i + 1] ELSE PANIC

\* Matrix::get(&self, i, j)
Matrix_get(self, i, j) ==
    LET row == Matrix_row(self, i) IN
    IF row = PANIC THEN PANIC ELSE Array_get(row, j)

\* Matrix::set(&mut self, val, i, j): the Matrix after the call, or PANIC.
Matrix_set(self, val, i, j) ==
    LET row == Matrix_row(self, i) IN
    IF row = PANIC THEN PANIC
    ELSE LET r == Array_set(row, val, j) IN
         IF r = PANIC THEN PANIC ELSE [self EXCEPT !.arrays[i + 1] = r]

\* <Matrix as Index<usize>>::index: &self[i]
Matrix_index(self, i) ==
    IF ~(i < self.rows) THEN PANIC ELSE self.arrays[i + 1]

\* self[i][j] read: Matrix index, then Array index.
Matrix_index2(self, i, j) ==
    LET row == Matrix_index(self, i) IN
    IF row = PANIC THEN PANIC ELSE Array_index(row, j)

\* self[i][j] = val: Matrix index_mut, then Array index_mut and the store.
Matrix_index_mut2(self, val, i, j) ==
    IF val = PANIC THEN PANIC
    ELSE IF ~(i < self.rows) THEN PANIC
    ELSE LET r == Array_index_mut(self.arrays[i + 1], val, j) IN
         IF r = PANIC THEN PANIC ELSE [self EXCEPT !.arrays[i + 1] = r]

RECURSIVE Matrix_eq_from(_, _, _)
Matrix_eq_from(self, other, i) ==
    IF i >= self.rows THEN TRUE
    ELSE IF ~Array_eq(self.arrays[i + 1], other.arrays[i + 1]) THEN FALSE
    ELSE Matrix_eq_from(self, other, i + 1)

\* <Matrix as PartialEq>::eq
Matrix_eq(self, other) ==
    IF self.rows # other.rows THEN FALSE
    ELSE IF self.cols # other.cols THEN FALSE
    ELSE Matrix_eq_from(self, other, 0)

\* Matrix::augment(&self, array): array appended as one more column, row i
\* receiving array[i].  Not in matrix.rs; modelled from the specification.
Matrix_augment(self, array) ==
    IF Array_len(array) # self.rows THEN PANIC
    ELSE [rows |-> self.rows, cols |-> self.cols + 1,
          arrays |-> [i \in 1..self.rows |->
              Array_from(Append(self.arrays[i].arr, array.arr[i]))]]

\* Matrix::swap_rows(&mut self, i, j): rows i and j exchanged.  Not in
\* matrix.rs; modelled from the specification.
Matrix_swap_rows(self, i, j) ==
    IF ~(i < self.rows) \/ ~(j < self.rows) THEN PANIC
    ELSE [self EXCEPT !.arrays[i + 1] = self.arrays[j + 1],
                      !.arrays[j + 1] = self.arrays[i + 1]]

\* A piece of the text that to_string builds: a literal, or the {:?} dump of
\* the elements of one row.
Literal(s) == [text |-> s]
Dumped(slice) == [debug |-> slice]

\* The separator pushed between row dumps.
Separator == Literal(", \n ")

RECURSIVE to_string_from(_, _, _)
\* The loop of to_string over the rows from i on: the dump of the row is
\* pushed, then the separator if i < arr.len() - 1.
to_string_from(self, i, result) ==
    IF i >= self.rows THEN result
    ELSE LET arr    == self.arrays[i + 1]
             dumped == Append(result, Dumped(arr.arr))
         IN IF arr.len = 0 THEN PANIC   \* arr.len() - 1 on usize
            ELSE IF i < arr.len - 1
                 THEN to_string_from(self, i + 1, Append(dumped, Separator))
                 ELSE to_string_from(self, i + 1, dumped)

\* Matrix::to_string(&self), as [string |-> the pieces pushed, in order], or
\* PANIC.
Matrix_to_string(self) ==
    LET result == to_string_from(self, 0, <<Literal("Matrix: \n[")>>)
    IN IF result = PANIC THEN PANIC
       ELSE [string |-> Append(result, Literal("]"))]

---------------------------------------------------------------------------
(* Memory: Array and Matrix as the structs of sizes and raw pointers they
   are.  A buffer is named by its address, its index in the sequence hp of
   all buffers; the operators above compute on what is read through a
   value, the operators below say where results are written. *)

\* What is read through the Array x: from_raw_parts_mut(x.arr, x.len()).
ArrayAt(hp, x) == [len |-> x.len, arr |-> SubSeq(hp[x.arr], 1, x.len)]

\* What is read through the Matrix m: from_raw_parts_mut(m.arrays, m.rows),
\* and each row through its own pointer.
MatrixAt(hp, m) ==
    [rows |-> m.rows, cols |-> m.cols,
     arrays |-> [i \in 1..m.rows |-> ArrayAt(hp, hp[m.arrays][i])]]

ValueAt(hp, v) == IF IsMatrix(v) THEN MatrixAt(hp, v) ELSE ArrayAt(hp, v)

\* What is read through each of the values vs.
Views(hp, vs) == [i \in 1..Len(vs) |-> ValueAt(hp, vs[i])]

\* The addresses of the buffers reached through the value v.
Buffers(hp, v) ==
    IF IsMatrix(v)
    THEN {v.arrays} \cup {hp[v.arrays][i].arr : i \in 1..v.rows}
    ELSE {v.arr}

\* alloc(Layout::array::<f64>(len)) filled with the elements of the Array v:
\* the memory after it, and the Array that points to the new buffer.
StoreArray(hp, v) ==
    [heap |-> Append(hp, v.arr), value |-> [len |-> v.len, arr |-> Len(hp) + 1]]

\* alloc(Layout::array::<Array>(rows)) filled with rows that are each
\* allocated in turn: the memory after it, and the Matrix that points to
\* the new row buffer.
StoreMatrix(hp, v) ==
    LET base == Len(hp) + 1 IN
    [heap  |-> (hp \o <<[i \in 1..v.rows |->
                            [len |-> v.arrays[i].len, arr |-> base + i]]>>)
               \o [i \in 1..v.rows |-> v.arrays[i].arr],
     value |-> [rows |-> v.rows, cols |-> v.cols, arrays |-> base]]

\* A faulty transformation: a result of the size of self is written over
\* the buffer of self, and self is returned.
ResultInPlace(hp, self, v) ==
    IF IsArray(v) /\ IsArray(self) /\ v.len = self.len
    THEN [heap |-> [hp EXCEPT ![self.arr] = v.arr], value |-> self]
    ELSE IF IsMatrix(v) THEN StoreMatrix(hp, v) ELSE StoreArray(hp, v)

\* The result v of a transformation of self: every transformation writes
\* it to memory it has allocated (let result = unsafe { ... alloc(layout) ... }).
ResultOf(hp, self, v) ==
    IF IsMatrix(v) THEN StoreMatrix(hp, v) ELSE StoreArray(hp, v)

\* A value built by a constructor: Array::from and Matrix::new point to the
\* slice of the caller, Array::of and Matrix::of to memory they allocate.
Constructed(hp, v) ==
    IF IsMatrix(v) THEN StoreMatrix(hp, v) ELSE StoreArray(hp, v)

\* #[derive(Clone)] on Array and on Matrix: the fields are copied, the
\* pointer among them.
Clone(self) == self

\* Array::set(&mut self, val, index) in memory: the memory after the call,
\* and whether the call returned (ok) or failed fatally.
Array_set_at(hp, self, val, index) ==
    IF ~(index < self.len) THEN [heap |-> hp, ok |-> FALSE]
    ELSE [heap |-> [hp EXCEPT ![self.arr][index + 1] = val], ok |-> TRUE]

\* Matrix::set(&mut self, val, i, j) in memory.
Matrix_set_at(hp, self, val, i, j) ==
    IF ~(i < self.rows) THEN [heap |-> hp, ok |-> FALSE]
    ELSE Array_set_at(hp, hp[self.arrays][i + 1], val, j)

RECURSIVE set_row_from(_, _, _, _, _, _)
\* The loop of set_row from elem on: self.set(arr.get(elem), row, elem + offset)
set_row_from(hp, self, arr, row, offset, elem) ==
    IF elem >= arr.len THEN [heap |-> hp, ok |-> TRUE]
    ELSE LET st == Matrix_set_at(hp, self, Array_get(ArrayAt(hp, arr), elem),
                                 row, elem + offset)
         IN IF ~st.ok THEN st
            ELSE set_row_from(st.heap, self, arr, row, offset, elem + 1)

\* A faulty set_row: the Array is written from the first cell of the row.
Matrix_set_row_left_aligned(hp, self, arr, row) ==
    set_row_from(hp, self, arr, row, 0, 0)

\* Matrix::set_row(&mut self, arr, row) in memory.
Matrix_set_row(hp, self, arr, row) ==
    LET offset == IF arr.len < self.cols THEN self.cols - arr.len ELSE 0
    IN set_row_from(hp, self, arr, row, offset, 0)

---------------------------------------------------------------------------
(* The solver: src/linalg/methods.rs *)

\* The f64 operations on operands whose evaluation may have failed fatally:
\* the failure of an operand is the failure of the expression.
padd(x, y) == IF x = PANIC \/ y = PANIC THEN PANIC ELSE fadd(x, y)
psub(x, y) == IF x = PANIC \/ y = PANIC THEN PANIC ELSE fsub(x, y)
pmul(x, y) == IF x = PANIC \/ y = PANIC THEN PANIC ELSE fmul(x, y)

\* A division that fails fatally on a zero divisor.
pdiv_checked(x, y) ==
    IF x = PANIC \/ y = PANIC THEN PANIC
    ELSE IF IsZero(y) THEN PANIC ELSE fdiv(x, y)

pdiv(x, y) == IF x = PANIC \/ y = PANIC THEN PANIC ELSE fdiv(x, y)

\* A faulty abs: the sign test left out.
abs_keeps_sign(num) == num

\* The closure abs of row_echelon_form.
abs(num) ==
    IF num = PANIC THEN PANIC
    ELSE IF flt(num, Zero(0)) THEN fmul(FromInt(-1), num) ELSE num

RECURSIVE argmax_from(_, _, _, _, _, _)
\* The loop of argmax from row i on, for the range ending before stop.
argmax_from(i, stop, mat, pcol, max_arg, max_out) ==
    IF i >= stop THEN [max_arg |-> max_arg]
    ELSE LET cur == abs(Matrix_index2(mat, i, pcol)) IN
         IF cur = PANIC THEN PANIC
         ELSE IF fle(max_out, cur) THEN argmax_from(i + 1, stop, mat, pcol, i, cur)
         ELSE argmax_from(i + 1, stop, mat, pcol, max_arg, max_out)

\* A faulty argmax: the first row of the range, whatever the values.
argmax_takes_start(start, stop, mat, pcol) ==
    LET max_out == abs(Matrix_index2(mat, start, pcol)) IN
    IF max_out = PANIC THEN PANIC
    ELSE [max_arg |-> start]

\* argmax(start..stop, a, k, &abs): the record of max_arg, or PANIC.
argmax(start, stop, mat, pcol) ==
    LET max_out == abs(Matrix_index2(mat, start, pcol)) IN
    IF max_out = PANIC THEN PANIC
    ELSE argmax_from(start, stop, mat, pcol, start, max_out)

RECURSIVE eliminate_cols(_, _, _, _, _, _)
\* for j in (k + 1)..n { a[i][j] = a[i][j] - a[h][j] * f } from column j on.
eliminate_cols(mat, prow, i, j, n, f) ==
    IF mat = PANIC THEN PANIC
    ELSE IF j >= n THEN mat
    ELSE eliminate_cols(
             Matrix_index_mut2(mat,
                 psub(Matrix_index2(mat, i, j),
                      pmul(Matrix_index2(mat, prow, j), f)),
                 i, j),
             prow, i, j + 1, n, f)

RECURSIVE eliminate_rows_keeps_pivot_column(_, _, _, _, _, _)
\* A faulty elimination: a[i][k] = 0.0 left out.
eliminate_rows_keeps_pivot_column(mat, prow, pcol, i, m, n) ==
    IF mat = PANIC THEN PANIC
    ELSE IF i >= m THEN mat
    ELSE LET f == pdiv(Matrix_index2(mat, i, pcol), Matrix_index2(mat, prow, pcol))
         IN IF f = PANIC THEN PANIC
            ELSE eliminate_rows_keeps_pivot_column(
                     eliminate_cols(mat, prow, i, pcol + 1, n, f),
                     prow, pcol, i + 1, m, n)

RECURSIVE eliminate_rows(_, _, _, _, _, _)
\* for i in (h + 1)..m { f = a[i][k] / a[h][k]; a[i][k] = 0.0; ... } from row i on.
eliminate_rows(mat, prow, pcol, i, m, n) ==
    IF mat = PANIC THEN PANIC
    ELSE IF i >= m THEN mat
    ELSE LET f == pdiv(Matrix_index2(mat, i, pcol), Matrix_index2(mat, prow, pcol))
         IN IF f = PANIC THEN PANIC
            ELSE eliminate_rows(
                     eliminate_cols(Matrix_index_mut2(mat, Zero(0), i, pcol),
                                    prow, i, pcol + 1, n, f),
                     prow, pcol, i + 1, m, n)

\* A faulty iteration: a zero pivot advances h as well as k.
row_echelon_step_advances_h(mat, prow, pcol) ==
    LET m     == Matrix_dimensions(mat)[1]
        n     == Matrix_dimensions(mat)[2]
        found == argmax(prow, m, mat, pcol)
    IN IF found = PANIC THEN PANIC
       ELSE LET reduced == eliminate_rows(Matrix_swap_rows(mat, prow, found.max_arg),
                                          prow, pcol, prow + 1, m, n)
            IN IF feq(Matrix_index2(mat, found.max_arg, pcol), Zero(0))
               THEN [a |-> mat, h |-> prow + 1, k |-> pcol + 1]
               ELSE IF reduced = PANIC THEN PANIC
               ELSE [a |-> reduced, h |-> prow + 1, k |-> pcol + 1]

\* A faulty iteration: a zero pivot advances k by two.
row_echelon_step_skips_two(mat, prow, pcol) ==
    LET m     == Matrix_dimensions(mat)[1]
        n     == Matrix_dimensions(mat)[2]
        found == argmax(prow, m, mat, pcol)
    IN IF found = PANIC THEN PANIC
       ELSE LET reduced == eliminate_rows(Matrix_swap_rows(mat, prow, found.max_arg),
                                          prow, pcol, prow + 1, m, n)
            IN IF feq(Matrix_index2(mat, found.max_arg, pcol), Zero(0))
               THEN [a |-> mat, h |-> prow, k |-> pcol + 2]
               ELSE IF reduced = PANIC THEN PANIC
               ELSE [a |-> reduced, h |-> prow + 1, k |-> pcol + 1]

\* One iteration of the while loop of row_echelon_form, entered with the
\* matrix a and the cursors h and k: the record of a, h and k after it, or
\* PANIC.
row_echelon_step(mat, prow, pcol) ==
    LET m     == Matrix_dimensions(mat)[1]
        n     == Matrix_dimensions(mat)[2]
        found == argmax(prow, m, mat, pcol)
    IN IF found = PANIC THEN PANIC
       ELSE LET i_max == found.max_arg
                pivot == Matrix_index2(mat, i_max, pcol)
            IN
       IF pivot = PANIC THEN PANIC
       ELSE IF feq(pivot, Zero(0))
            THEN [a |-> mat, h |-> prow, k |-> pcol + 1]
       ELSE LET swapped == Matrix_swap_rows(mat, prow, i_max)
                reduced == eliminate_rows(swapped, prow, pcol, prow + 1, m, n)
            IN IF reduced = PANIC THEN PANIC
               ELSE [a |-> reduced, h |-> prow + 1, k |-> pcol + 1]

RECURSIVE back_kernel(_, _, _, _, _, _)
\* for j in (i + 1)..n { kernel += reduced[i][j] * x[j] } from j on.
back_kernel(reduced, x, i, j, n, kernel) ==
    IF kernel = PANIC THEN PANIC
    ELSE IF j >= n THEN kernel
    ELSE back_kernel(reduced, x, i, j + 1, n,
             padd(kernel,
                  pmul(Matrix_index2(reduced, i, j), Array_index(x, j))))

RECURSIVE back_rows(_, _, _, _, _, _)
\* for i in 0..rows { ...; x[i] = (y(i) - kernel) / reduced[i][i] } from i on.
back_rows(reduced, x, i, rows, n, pcol) ==
    IF x = PANIC THEN PANIC
    ELSE IF i >= rows THEN x
    ELSE LET kernel == back_kernel(reduced, x, i, i + 1, n, Zero(0))
             xi     == pdiv(psub(Matrix_index2(reduced, i, pcol), kernel),
                             Matrix_index2(reduced, i, i))
         IN IF xi = PANIC THEN PANIC
            ELSE back_rows(reduced, Array_index_mut(x, xi, i), i + 1, rows, n, pcol)

\* back_substitution(reduced)
back_substitution(reduced) ==
    LET rows == Matrix_dimensions(reduced)[1]
        cols == Matrix_dimensions(reduced)[2]
    IN IF rows = 0 \/ cols = 0 THEN PANIC   \* rows - 1, cols - 1 on usize
       ELSE LET n  == rows - 1
                pcol  == cols - 1
                xn == pdiv(Matrix_index2(reduced, n, pcol),
                            Matrix_index2(reduced, n, n))
            IN IF xn = PANIC THEN PANIC
               ELSE back_rows(reduced, Array_index_mut(Array_zeros(rows), xn, n),
                              0, rows, n, pcol)

---------------------------------------------------------------------------
(* Statistics: src/statistics/functions.rs.  usize values are modelled as
   naturals: for arguments up to MaxArg no product reaches usize::MAX. *)

RECURSIVE factorial(_)
\* factorial(n)
factorial(n) == IF n = 0 THEN 1 ELSE n * factorial(n - 1)

\* binomial_coefficient(n, k), as [usize |-> the value returned], or PANIC:
\* n - k on usize fails when k > n (overflow check), as does a division by 0.
binomial_coefficient(n, kk) ==
    IF kk > n THEN PANIC
    ELSE LET divisor == factorial(n) * factorial(n - kk) IN
         IF divisor = 0 THEN PANIC
         ELSE [usize |-> factorial(n) \div divisor]

---------------------------------------------------------------------------
(* Inputs *)

\* Longest Array a call is given.
MaxLen == 2
\* Most rows and most columns of a Matrix a call is given.
MaxDim == 2
\* Largest linear system the family of generated systems holds.
MaxN == 2
\* Most cells of a Matrix of the pool that is enumerated exhaustively.
MaxCells == 4

\* The element values Arrays are built from; the fourth is the smallest power
\* of two whose successor is not representable.
ArrVals == {Zero(0), FromInt(1), FromInt(-3), FromInt(Pow2(Precision)), Inf(0)}

ArrayPool ==
    UNION {{Array_from(elems) : elems \in [1..n -> ArrVals]} : n \in 0..MaxLen}

\* The indices a call is given: in range, one past the end, and beyond.
ArrayIndices == 0..(MaxLen + 1)

\* The element values of the Matrices that are enumerated exhaustively.
MatVals == {FromInt(1), FromInt(-3), NaN}

\* Every rows x cols Matrix of MaxCells cells at most over MatVals, built as
\* Matrix::new builds it.
MatrixPool ==
    UNION {UNION {{Matrix_new([i \in 1..r |-> Array_from(m[i])]) :
                      m \in [1..r -> [1..c -> MatVals]]} :
                  c \in {d \in 1..MaxDim : r * d <= MaxCells}} : r \in 1..MaxDim}

\* The element values of the Arrays a caller hands to Matrix::new as rows.
RowVals == {FromInt(1), FromInt(-3)}

\* The Arrays a caller hands to Matrix::new as rows: every length from 0 on.
RowPool ==
    UNION {{Array_from(elems) : elems \in [1..n -> RowVals]} : n \in 0..MaxLen}

\* The collections of rows a caller hands to Matrix::new, the empty one and
\* the ragged ones included.
RowSlices == UNION {[1..r -> RowPool] : r \in 0..MaxDim}

\* The values the pairs of Matrix operands are filled with, cyclically.
FamilySeq == <<FromInt(1), FromInt(2), Zero(0), FromInt(-3), Inf(0)>>

\* The r x c Matrix whose cells, row by row, are FamilySeq read from
\* position seed with the given stride.
FamilyMatrix(r, c, seed, stride) ==
    Matrix_new([i \in 1..r |-> Array_from([j \in 1..c |->
        FamilySeq[((seed + stride * ((i - 1) * c + (j - 1))) % Len(FamilySeq)) + 1]])])

MatrixFamily ==
    {FamilyMatrix(r, c, seed, stride) :
        r \in 1..MaxDim, c \in 1..MaxDim,
        seed \in 0..(Len(FamilySeq) - 1), stride \in {1, 2}}

MatrixIndices == 0..(MaxDim + 1)

\* The value a setter call stores.
SetVals == {FromInt(7), Zero(0)}

\* The coefficients of the generated linear systems, read cyclically.
CoefSeq == <<0, 1, 2, -1, -3>>

CoefRows(n) ==
    {[j \in 1..n |-> CoefSeq[((seed + stride * (j - 1)) % Len(CoefSeq)) + 1]] :
        seed \in 0..(Len(CoefSeq) - 1), stride \in {1, 2}}

\* The solutions the systems are generated from.
SolVals == {-1, 2}

\* The systems of section 8 of the specification (concrete scenarios 1 and 2),
\* each with the solution of A x = b.
Scenario1 == [A |-> <<<<3, 2>>, <<-6, 6>>>>, x |-> <<1, 2>>]
Scenario2 ==
    [A |-> <<<<2, 1, -1>>, <<-3, -1, 2>>, <<-2, 1, 2>>>>, x |-> <<2, 3, -1>>]

\* A linear system is drawn as an integer coefficient matrix A and an integer
\* solution x; the right-hand side is b = A x.
GaussCases ==
    {Scenario1, Scenario2} \cup
    UNION {{[A |-> A, x |-> x] : A \in [1..n -> CoefRows(n)], x \in [1..n -> SolVals]} :
           n \in 1..MaxN}

\* Calls of gauss_elimination(A, b) on a Matrix and an Array of any shape
\* and length: A wide, tall or square, b shorter than, as long as or longer
\* than A has rows.
ShapeMatrices ==
    {<<<<1, 2>>>>, <<<<0, 1>>>>, <<<<2>>, <<1>>>>, <<<<1>>, <<2>>, <<-1>>>>,
     <<<<2>>>>, <<<<3, 2>>, <<-6, 6>>>>,
     <<<<3, 3>>, <<11, 11>>>>, <<<<1, 1>>, <<13, 13>>>>, <<<<29, 29>>, <<15, 15>>>>,
     <<<<3, 64>>, <<1, 21>>>>}

ShapeArrays == {<<7>>, <<7, 6>>, <<7, 6, 1>>}

ShapeCases == {[A |-> A, b |-> b] : A \in ShapeMatrices, b \in ShapeArrays}

RECURSIVE IntDot(_, _, _)
IntDot(row, x, j) ==
    IF j > Len(row) THEN 0 ELSE row[j] * x[j] + IntDot(row, x, j + 1)

\* b = A x over the integers.
Rhs(c) == [i \in 1..Len(c.A) |-> IntDot(c.A[i], c.x, 1)]

\* Array::from(&mut [..]) of integer literals.
ArrayOfInts(seq) == Array_from([i \in 1..Len(seq) |-> FromInt(seq[i])])

\* Matrix::new(&mut [Array::from(..), ..]) of integer literals.
MatrixOfInts(rows) == Matrix_new([i \in 1..Len(rows) |-> ArrayOfInts(rows[i])])

\* A client program: at most MaxOperands values built by constructors, then
\* one clone or one transformation, then one store.
MaxOperands == 2

\* The constructor calls of a client program, each with the value it builds.
Constructions ==
    {[fn |-> "Array::from", value |-> ArrayOfInts(<<1, -3>>)],
     [fn |-> "Array::from", value |-> ArrayOfInts(<<-3>>)],
     [fn |-> "Array::zeros", value |-> Array_zeros(2)],
     [fn |-> "Array::ones", value |-> Array_ones(1)],
     [fn |-> "Matrix::new", value |-> MatrixOfInts(<<<<1, -3>>, <<-3, 1>>>>)],
     [fn |-> "Matrix::zeros", value |-> Matrix_zeros(1, 2)],
     [fn |-> "Matrix::ones", value |-> Matrix_ones(2, 1)],
     [fn |-> "Matrix::identity", value |-> Matrix_identity(2)]}

ArrayBinary == {"Array::plus", "Array::minus", "Array::mult", "Array::dotp",
                "Array::concat"}
ArrayUnary == {"Array::scalar_add", "Array::scalar_sub", "Array::scalar_mult",
               "Array::splice"}
MatrixBinary == {"Matrix::plus", "Matrix::minus", "Matrix::elem_mult",
                 "Matrix::mult"}
MatrixUnary == {"Matrix::scalar", "Matrix::transpose"}

\* The arithmetic operations of Array and Matrix.
Transformations == ArrayBinary \cup ArrayUnary \cup MatrixBinary \cup MatrixUnary

\* The scalar argument of the scalar operations, the bounds of a splice and
\* the value a store writes.
Scalar == FromInt(2)
SpliceFirst == 1
SpliceLast == 2
Stored == FromInt(5)

\* fn takes a receiver like x and, when it takes one, an operand like y.
Applicable(fn, x, y) ==
    \/ fn \in ArrayBinary /\ IsArray(x) /\ IsArray(y)
    \/ fn \in ArrayUnary /\ IsArray(x) /\ y = x
    \/ fn \in MatrixBinary /\ IsMatrix(x) /\ IsMatrix(y)
    \/ fn \in MatrixUnary /\ IsMatrix(x) /\ y = x

\* What the call of fn computes from what it reads through its operands.
Transform(fn, x, y) ==
    CASE fn = "Array::plus" -> Array_plus(x, y)
      [] fn = "Array::minus" -> Array_minus(x, y)
      [] fn = "Array::mult" -> Array_mult(x, y)
      [] fn = "Array::dotp" -> Array_dotp(x, y)
      [] fn = "Array::concat" -> Array_concat(x, y)
      [] fn = "Array::scalar_add" -> Array_scalar_add(x, Scalar)
      [] fn = "Array::scalar_sub" -> Array_scalar_sub(x, Scalar)
      [] fn = "Array::scalar_mult" -> Array_scalar_mult(x, Scalar)
      [] fn = "Array::splice" -> Array_splice(x, SpliceFirst, SpliceLast)
      [] fn = "Matrix::plus" -> Matrix_plus(x, y)
      [] fn = "Matrix::minus" -> Matrix_minus(x, y)
      [] fn = "Matrix::elem_mult" -> Matrix_elem_mult(x, y)
      [] fn = "Matrix::mult" -> Matrix_mult(x, y)
      [] fn = "Matrix::scalar" -> Matrix_scalar(x, Scalar)
      [] fn = "Matrix::transpose" -> Matrix_transpose(x)

\* The arguments of binomial_coefficient range over 0..MaxArg.
MaxArg == 4

---------------------------------------------------------------------------
(* State *)


Init ==
    /\ op = "none" /\ receiver = NONE /\ operand = NONE /\ arg = NONE /\ out = NONE
    /\ prev = NONE /\ pc = "idle" /\ a = NONE /\ h = 0 /\ k = 0
    /\ heap = << >> /\ vals = << >>

\* No call is held: the caller may make one on operands of its choice.
Ready == pc = "idle" /\ op = "none"

\* A call on operands given by the caller.
Fresh(o, s, t, g, r) ==
    /\ Ready
    /\ op' = o /\ receiver' = s /\ operand' = t /\ arg' = g /\ out' = r
    /\ prev' = NONE /\ pc' = "idle" /\ a' = NONE /\ h' = 0 /\ k' = 0
    /\ UNCHANGED <<heap, vals>>

\* A call whose receiver is the result of the previous call.
Chained(o, s, t, g, r) ==
    /\ pc = "idle" /\ prev = NONE /\ op # "none"
    /\ op' = o /\ receiver' = s /\ operand' = t /\ arg' = g /\ out' = r
    /\ prev' = [op |-> op, receiver |-> receiver, operand |-> operand,
                arg |-> arg, out |-> out]
    /\ UNCHANGED <<pc, a, h, k, heap, vals>>

---------------------------------------------------------------------------
(* Array calls *)

ArrayPlus ==
    Ready /\ \E s \in ArrayPool, t \in ArrayPool :
        Fresh("Array::plus", s, t, NONE, Array_plus(s, t))

\* a.minus(b), or s.minus(b) on the result s of a.plus(b).
ArrayMinus ==
    \/ Ready /\ \E s \in ArrayPool, t \in ArrayPool :
           Fresh("Array::minus", s, t, NONE, Array_minus(s, t))
    \/ /\ op = "Array::plus" /\ IsArray(out)
       /\ Chained("Array::minus", out, operand, NONE, Array_minus(out, operand))

ArrayMult ==
    Ready /\ \E s \in ArrayPool, t \in ArrayPool :
        Fresh("Array::mult", s, t, NONE, Array_mult(s, t))

ArrayDotp ==
    Ready /\ \E s \in ArrayPool, t \in ArrayPool :
        Fresh("Array::dotp", s, t, NONE, Array_dotp(s, t))

ArrayGet ==
    Ready /\ \E s \in ArrayPool, i \in ArrayIndices :
        Fresh("Array::get", s, NONE, [index |-> i], Array_get(s, i))

ArraySet ==
    Ready /\ \E s \in ArrayPool, i \in ArrayIndices, v \in SetVals :
        Fresh("Array::set", s, NONE, [index |-> i, val |-> v], Array_set(s, v, i))

ArrayIndex ==
    Ready /\ \E s \in ArrayPool, i \in ArrayIndices :
        Fresh("Array::index", s, NONE, [index |-> i], Array_index(s, i))

ArrayIndexMut ==
    Ready /\ \E s \in ArrayPool, i \in ArrayIndices, v \in SetVals :
        Fresh("Array::index_mut", s, NONE, [index |-> i, val |-> v],
              Array_index_mut(s, v, i))

ArraySplice ==
    Ready /\ \E s \in ArrayPool, first \in ArrayIndices, last \in ArrayIndices :
        Fresh("Array::splice", s, NONE, [first |-> first, last |-> last],
              Array_splice(s, first, last))

---------------------------------------------------------------------------
(* Matrix calls *)

MatrixNew ==
    Ready /\ \E slice \in RowSlices :
        Fresh("Matrix::new", NONE, NONE, [slice |-> slice], Matrix_new(slice))

MatrixIdentity ==
    Ready /\ \E len \in 1..MaxDim :
        Fresh("Matrix::identity", NONE, NONE, [len |-> len], Matrix_identity(len))

MatrixTranspose ==
    \/ Ready /\ \E s \in MatrixPool \cup MatrixFamily :
           Fresh("Matrix::transpose", s, NONE, NONE, Matrix_transpose(s))
    \/ /\ IsMatrix(out)
       /\ Chained("Matrix::transpose", out, NONE, NONE, Matrix_transpose(out))

MatrixMult ==
    \/ Ready /\ \E s \in MatrixFamily, t \in MatrixFamily :
           Fresh("Matrix::mult", s, t, NONE, Matrix_mult(s, t))
    \/ /\ IsMatrix(out) /\ op = "Matrix::identity"
       /\ \E t \in MatrixPool \cup MatrixFamily :
              Chained("Matrix::mult", out, t, NONE, Matrix_mult(out, t))

MatrixPlus ==
    Ready /\ \E s \in MatrixFamily, t \in MatrixFamily :
        Fresh("Matrix::plus", s, t, NONE, Matrix_plus(s, t))

MatrixMinus ==
    Ready /\ \E s \in MatrixFamily, t \in MatrixFamily :
        Fresh("Matrix::minus", s, t, NONE, Matrix_minus(s, t))

MatrixElemMult ==
    Ready /\ \E s \in MatrixFamily, t \in MatrixFamily :
        Fresh("Matrix::elem_mult", s, t, NONE, Matrix_elem_mult(s, t))

MatrixToString ==
    Ready /\ \E s \in MatrixFamily :
        Fresh("Matrix::to_string", s, NONE, NONE, Matrix_to_string(s))

MatrixGet ==
    Ready /\ \E s \in MatrixFamily, i \in MatrixIndices, j \in MatrixIndices :
        Fresh("Matrix::get", s, NONE, [i |-> i, j |-> j], Matrix_get(s, i, j))

MatrixSet ==
    Ready /\ \E s \in MatrixFamily, i \in MatrixIndices, j \in MatrixIndices, v \in SetVals :
        Fresh("Matrix::set", s, NONE, [i |-> i, j |-> j, val |-> v],
              Matrix_set(s, v, i, j))

MatrixIndex ==
    Ready /\ \E s \in MatrixFamily, i \in MatrixIndices, j \in MatrixIndices :
        Fresh("Matrix::index", s, NONE, [i |-> i, j |-> j], Matrix_index2(s, i, j))

MatrixIndexMut ==
    Ready /\ \E s \in MatrixFamily, i \in MatrixIndices, j \in MatrixIndices, v \in SetVals :
        Fresh("Matrix::index_mut", s, NONE, [i |-> i, j |-> j, val |-> v],
              Matrix_index_mut2(s, v, i, j))

---------------------------------------------------------------------------
(* Statistics calls *)

BinomialCoefficient ==
    Ready /\ \E n \in 0..MaxArg, kk \in 0..MaxArg :
        Fresh("binomial_coefficient", NONE, NONE, [n |-> n, k |-> kk],
              binomial_coefficient(n, kk))

---------------------------------------------------------------------------
(* gauss_elimination(a, b), one action per phase *)

\* The call, up to the entry of the loop of row_echelon_form:
\* let augmented = a.augment(b); (m, n) = augmented.dimensions(); h = 0; k = 0
GaussCall ==
    Ready /\ \E c \in GaussCases \cup ShapeCases :
        LET A         == MatrixOfInts(c.A)
            b         == ArrayOfInts(IF "b" \in DOMAIN c THEN c.b ELSE Rhs(c))
            augmented == Matrix_augment(A, b)
        IN /\ op' = "gauss_elimination" /\ receiver' = A /\ operand' = b
           /\ arg' = c /\ prev' = NONE /\ h' = 0 /\ k' = 0
           /\ UNCHANGED <<heap, vals>>
           /\ IF augmented = PANIC
              THEN out' = PANIC /\ pc' = "done" /\ a' = NONE
              ELSE out' = NONE /\ pc' = "ref" /\ a' = augmented

\* One iteration of while h < m && k < n.
RefStep ==
    /\ pc = "ref"
    /\ h < Matrix_dimensions(a)[1] /\ k < Matrix_dimensions(a)[2]
    /\ LET st == row_echelon_step(a, h, k) IN
       IF st = PANIC
       THEN out' = PANIC /\ pc' = "done" /\ UNCHANGED <<a, h, k>>
       ELSE a' = st.a /\ h' = st.h /\ k' = st.k /\ UNCHANGED <<out, pc>>
    /\ UNCHANGED <<op, receiver, operand, arg, prev, heap, vals>>

\* The loop exits; row_echelon_form returns a.
RefExit ==
    /\ pc = "ref"
    /\ ~(h < Matrix_dimensions(a)[1] /\ k < Matrix_dimensions(a)[2])
    /\ pc' = "back"
    /\ UNCHANGED <<op, receiver, operand, arg, out, prev, a, h, k, heap, vals>>

\* back_substitution(reduced_row) and the return.
BackSub ==
    /\ pc = "back"
    /\ out' = back_substitution(a)
    /\ pc' = "done"
    /\ UNCHANGED <<op, receiver, operand, arg, prev, a, h, k, heap, vals>>

---------------------------------------------------------------------------
(* A client program over values in memory, one action per statement *)

\* One statement: the call made, what was read through every value before
\* it, its result, and the memory and the values after it.
Statement(o, g, r, hp, vs, p) ==
    /\ op' = o /\ receiver' = Views(heap, vals) /\ operand' = NONE
    /\ arg' = g /\ out' = r
    /\ prev' = IF op = "none" THEN NONE ELSE [op |-> op, arg |-> arg, out |-> out]
    /\ pc' = p /\ heap' = hp /\ vals' = vs
    /\ UNCHANGED <<a, h, k>>

\* let x = Array::from(..) | Array::zeros(..) | Matrix::new(..) | ...
Construct ==
    /\ Ready \/ (pc = "own" /\ Len(vals) < MaxOperands)
    /\ \E c \in Constructions :
         LET st == Constructed(heap, c.value) IN
         Statement("let", [fn |-> c.fn, self |-> 0, other |-> 0],
                   [value |-> Len(vals) + 1],
                   st.heap, Append(vals, st.value), "own")

\* let y = x.clone()
CloneValue ==
    /\ pc = "own"
    /\ \E i \in 1..Len(vals) :
         Statement("let", [fn |-> "clone", self |-> i, other |-> i],
                   [value |-> Len(vals) + 1],
                   heap, Append(vals, Clone(vals[i])), "derived")

\* let z = x.plus(&y) | x.transpose() | ...: the call fails fatally, or
\* returns a number, or returns a value that the program binds.
TransformValue ==
    /\ pc = "own"
    /\ \E fn \in Transformations, i \in 1..Len(vals), j \in 1..Len(vals) :
         /\ Applicable(fn, vals[i], vals[j])
         /\ LET v == Transform(fn, ValueAt(heap, vals[i]), ValueAt(heap, vals[j]))
                g == [fn |-> fn, self |-> i, other |-> j]
            IN IF IsArray(v) \/ IsMatrix(v)
               THEN LET st == ResultOf(heap, vals[i], v) IN
                    Statement("let", g, [value |-> Len(vals) + 1],
                              st.heap, Append(vals, st.value), "derived")
               ELSE Statement("let", g, v, heap, vals, "derived")

\* x.set(val, index) on an Array x
StoreArraySet ==
    /\ pc \in {"own", "derived"}
    /\ \E i \in 1..Len(vals) :
         /\ IsArray(vals[i])
         /\ \E index \in 0..vals[i].len :
              LET st == Array_set_at(heap, vals[i], Stored, index) IN
              Statement("store", [fn |-> "Array::set", self |-> i, other |-> i,
                                  row |-> 0, col |-> index],
                        IF st.ok THEN OK ELSE PANIC, st.heap, vals, "stored")

\* m.set(val, i, j) on a Matrix m
StoreMatrixSet ==
    /\ pc \in {"own", "derived"}
    /\ \E i \in 1..Len(vals) :
         /\ IsMatrix(vals[i])
         /\ \E row \in 0..(vals[i].rows - 1), col \in 0..(vals[i].cols - 1) :
              LET st == Matrix_set_at(heap, vals[i], Stored, row, col) IN
              Statement("store", [fn |-> "Matrix::set", self |-> i, other |-> i,
                                  row |-> row, col |-> col],
                        IF st.ok THEN OK ELSE PANIC, st.heap, vals, "stored")

\* m.set_row(x, row) on a Matrix m, with an Array x
StoreMatrixSetRow ==
    /\ pc \in {"own", "derived"}
    /\ \E i \in 1..Len(vals), j \in 1..Len(vals) :
         /\ IsMatrix(vals[i]) /\ IsArray(vals[j])
         /\ \E row \in 0..vals[i].rows :
              LET st == Matrix_set_row(heap, vals[i], vals[j], row) IN
              Statement("store", [fn |-> "Matrix::set_row", self |-> i, other |-> j,
                                  row |-> row, col |-> 0],
                        IF st.ok THEN OK ELSE PANIC, st.heap, vals, "stored")

---------------------------------------------------------------------------

\* The caller drops the operands and the result of the call that returned,
\* or the program ends.
Release ==
    /\ op # "none" /\ pc \in {"idle", "done", "own", "derived", "stored"}
    /\ op' = "none" /\ receiver' = NONE /\ operand' = NONE /\ arg' = NONE
    /\ out' = NONE /\ prev' = NONE /\ pc' = "idle" /\ a' = NONE /\ h' = 0 /\ k' = 0
    /\ heap' = << >> /\ vals' = << >>

Next ==
    \/ ArrayPlus \/ ArrayMinus \/ ArrayMult \/ ArrayDotp
    \/ ArrayGet \/ ArraySet \/ ArrayIndex \/ ArrayIndexMut \/ ArraySplice
    \/ MatrixNew \/ MatrixIdentity \/ MatrixTranspose \/ MatrixMult
    \/ MatrixPlus \/ MatrixMinus \/ MatrixElemMult \/ MatrixToString
    \/ MatrixGet \/ MatrixSet \/ MatrixIndex \/ MatrixIndexMut
    \/ BinomialCoefficient
    \/ GaussCall \/ RefStep \/ RefExit \/ BackSub
    \/ Construct \/ CloneValue \/ TransformValue
    \/ StoreArraySet \/ StoreMatrixSet \/ StoreMatrixSetRow
    \/ Release

Spec == Init /\ [][Next]_vars

\* The calls of gauss_elimination alone.
SolverNext == GaussCall \/ RefStep \/ RefExit \/ BackSub \/ Release

\* The solver when a call that has started runs on: row_echelon_form and
\* back_substitution are sequential code, every step that can run does.
\* The fairness of RefStep is WF_vars(RefStep) written out: RefStep is
\* enabled exactly in the states where the loop condition holds, and every
\* step of it changes k or pc.
LiveSpec ==
    /\ Init /\ [][SolverNext]_vars
    /\ WF_vars(RefExit)
    /\ []<>~(pc = "ref" /\ h < Matrix_dimensions(a)[1] /\ k < Matrix_dimensions(a)[2])
        \/ []<><<RefStep>>_vars

---------------------------------------------------------------------------
(* Properties: the solver *)

\* Row 1 and column c of the square integer matrix A removed.
Minor(A, c) ==
    [i \in 1..(Len(A) - 1) |->
        [j \in 1..(Len(A) - 1) |-> A[i + 1][IF j < c THEN j ELSE j + 1]]]

RECURSIVE DetFrom(_, _)
\* The Laplace expansion of det A along row 1, from column c on.
DetFrom(A, c) ==
    IF Len(A) = 1 THEN A[1][1]
    ELSE IF c > Len(A) THEN 0
    ELSE (IF c % 2 = 1 THEN 1 ELSE -1) * A[1][c] * DetFrom(Minor(A, c), 1)
         + DetFrom(A, c + 1)

\* det A over the integers; A is non-singular iff it is not 0.
Det(A) == DetFrom(A, 1)

\* |x|
FAbs(x) == IF IsNaN(x) THEN NaN ELSE [x EXCEPT !.s = 0]

\* The tolerance of "approximately equal": 2^-2.
Tolerance == Canon(0, 1, -2)

\* Arrays of one length whose elements differ by Tolerance at most.
WithinTolerance(u, v) ==
    /\ Array_len(u) = Array_len(v)
    /\ \A i \in 1..Array_len(u) :
           fle(FAbs(fsub(u.arr[i], v.arr[i])), Tolerance)

\* gauss_elimination has returned.
GaussReturned == op = "gauss_elimination" /\ pc = "done"

\* C1 (as the specification states it): for every non-singular n x n
\* coefficient Matrix A and every Array x of length n, with b[i] the dot
\* product of row i of A with x, gauss_elimination(A, b) returns x, within
\* Tolerance.
C1_SolverRoundTrip ==
    (GaussReturned /\ "x" \in DOMAIN arg /\ Det(arg.A) # 0)
        => (IsArray(out) /\ WithinTolerance(out, ArrayOfInts(arg.x)))

\* C2: for A = [[3,2],[-6,6]] and b = [7,6], gauss_elimination(A, b) returns
\* an Array equal (==) to [-1, 2].
C2_Scenario1Returns ==
    (GaussReturned /\ arg = Scenario1)
        => (IsArray(out) /\ Array_eq(out, ArrayOfInts(<<-1, 2>>)))

\* gauss_elimination has returned an Array for A = [[3,2],[-6,6]], b = [7,6].
C2_Scenario1Solved ==
    /\ GaussReturned /\ arg = Scenario1
    /\ receiver = MatrixOfInts(<<<<3, 2>>, <<-6, 6>>>>)
    /\ operand = ArrayOfInts(<<7, 6>>)
    /\ IsArray(out)

\* C3 (as the specification states it): for A = [[2,1,-1],[-3,-1,2],[-2,1,2]]
\* and b = [8,-11,-3], gauss_elimination(A, b) returns [2, 3, -1], within
\* Tolerance.
C3_Scenario2Returns ==
    (GaussReturned /\ arg = Scenario2 /\ operand = ArrayOfInts(<<8, -11, -3>>))
        => (IsArray(out) /\ WithinTolerance(out, ArrayOfInts(<<2, 3, -1>>)))

---------------------------------------------------------------------------
(* Properties: Matrix::mult *)

\* x and y are one value: equal as f64, or both NaN.
SameValue(x, y) == (IsNaN(x) /\ IsNaN(y)) \/ feq(x, y)

RECURSIVE ProductEntry(_, _, _, _, _)
\* The sum over k < n, in the order of k, of A[i][k] * B[k][j].
ProductEntry(A, B, i, j, n) ==
    IF n = 0 THEN Zero(0)
    ELSE fadd(ProductEntry(A, B, i, j, n - 1),
              fmul(A.arrays[i + 1].arr[n], B.arrays[n].arr[j + 1]))

\* M is the standard product A B.
IsStandardProduct(M, A, B) ==
    /\ IsMatrix(M) /\ M.rows = A.rows /\ M.cols = B.cols
    /\ \A i \in 0..(A.rows - 1), j \in 0..(B.cols - 1) :
           SameValue(M.arrays[i + 1].arr[j + 1], ProductEntry(A, B, i, j, A.cols))

\* C4 (as the specification states it): for every pair (A, B) that mult
\* accepts, A.mult(B) is the standard matrix product A B: entry (i,j) is the
\* sum over k of A[i][k] * B[k][j].
C4_MultIsStandardProduct ==
    (op = "Matrix::mult" /\ out # PANIC)
        => IsStandardProduct(out, receiver, operand)

\* C5 (as the specification states it): mult accepts exactly the pairs with
\* self.rows == other.cols: for every such pair it returns a Matrix of shape
\* other.rows x self.cols, and for every other pair it fails fatally.
C5_MultAcceptsRowsEqCols ==
    op = "Matrix::mult"
        => IF receiver.rows = operand.cols
           THEN IsMatrix(out) /\ out.rows = operand.rows /\ out.cols = receiver.cols
           ELSE out = PANIC

\* Every entry of the Matrix M is finite.
AllFinite(M) ==
    \A i \in 1..M.rows : \A j \in 1..M.cols : IsFinite(M.arrays[i].arr[j])

\* Matrix::identity(n).mult(A) has been called on an n x n Matrix A.
IdentityTimesSquare ==
    /\ op = "Matrix::mult" /\ prev # NONE /\ prev.op = "Matrix::identity"
    /\ receiver = prev.out
    /\ operand.rows = prev.arg.len /\ operand.cols = prev.arg.len

\* C6 (as the specification states it): for every n >= 1 and every n x n
\* Matrix A, Matrix::identity(n).mult(A) equals (==) A.
C6_LeftIdentity ==
    IdentityTimesSquare => (IsMatrix(out) /\ Matrix_eq(out, operand))

\* C6 (amended): for every n >= 1 and every n x n Matrix A whose entries
\* are all finite, Matrix::identity(n).mult(A) equals (==) A.
C6_LeftIdentityFinite ==
    (IdentityTimesSquare /\ AllFinite(operand))
        => (IsMatrix(out) /\ Matrix_eq(out, operand))

\* identity(2).mult(A) has returned for a finite 2 x 2 Matrix A that is not
\* a multiple of the identity.
C6_FiniteSquareMultiplied ==
    /\ IdentityTimesSquare /\ AllFinite(operand)
    /\ prev.arg.len = 2 /\ IsMatrix(out)
    /\ ~IsZero(operand.arrays[1].arr[2])

---------------------------------------------------------------------------
(* Properties: Matrix::transpose *)

\* C7: for every Matrix A, square or not, A.transpose() has shape
\* cols x rows with entry (i,j) equal to A's entry (j,i), and
\* A.transpose().transpose() is A again, entry for entry.
C7_TransposeInvolution ==
    op = "Matrix::transpose" =>
        /\ IsMatrix(out)
        /\ out.rows = receiver.cols /\ out.cols = receiver.rows
        /\ \A i \in 0..(receiver.cols - 1), j \in 0..(receiver.rows - 1) :
               Matrix_get(out, i, j) = Matrix_get(receiver, j, i)
        /\ (prev # NONE /\ prev.op = "Matrix::transpose")
               => (receiver = prev.out /\ out = prev.receiver)

\* A Matrix that is not square has been transposed twice.
C7_TransposedTwice ==
    /\ op = "Matrix::transpose" /\ prev # NONE /\ prev.op = "Matrix::transpose"
    /\ prev.receiver.rows # prev.receiver.cols
    /\ receiver = prev.out /\ IsMatrix(out)

---------------------------------------------------------------------------
(* Properties: Array arithmetic *)

\* self[i] (+, -, x) other[i] for the operation called, i counted from 1.
ElementOf(i) ==
    IF op = "Array::plus" THEN fadd(receiver.arr[i], operand.arr[i])
    ELSE IF op = "Array::minus" THEN fsub(receiver.arr[i], operand.arr[i])
    ELSE fmul(receiver.arr[i], operand.arr[i])

RECURSIVE SumOfProducts(_, _, _)
\* The sum over i < n, in the order of i, of self[i] * other[i].
SumOfProducts(self, other, n) ==
    IF n = 0 THEN Zero(0)
    ELSE fadd(SumOfProducts(self, other, n - 1), fmul(self.arr[n], other.arr[n]))

\* C8: Array plus, minus, mult and dotp fail fatally, with no result, when
\* self.length != other.length; when the lengths are equal, plus/minus/mult
\* return an Array of that length whose element i is self[i] (+, -, x)
\* other[i], and dotp returns the sum over i of self[i] x other[i].
C8_ArrayArithmetic ==
    op \in {"Array::plus", "Array::minus", "Array::mult", "Array::dotp"} =>
        IF receiver.len # operand.len THEN out = PANIC
        ELSE IF op = "Array::dotp"
             THEN /\ out # PANIC
                  /\ SameValue(out, SumOfProducts(receiver, operand, receiver.len))
        ELSE /\ IsArray(out)
             /\ out.len = receiver.len /\ Len(out.arr) = receiver.len
             /\ \A i \in 1..receiver.len : out.arr[i] = ElementOf(i)

\* dotp has returned a sum of two products that is not zero.
C8_DotpOfTwo ==
    /\ op = "Array::dotp" /\ receiver.len = 2 /\ operand.len = 2
    /\ out # PANIC /\ IsFinite(out) /\ ~IsZero(out)
    /\ ~IsZero(receiver.arr[1]) /\ ~IsZero(operand.arr[2])

\* a.plus(b).minus(b) has been called: the state holds the minus, and prev
\* the plus whose result is its receiver.
PlusThenMinus ==
    /\ op = "Array::minus" /\ prev # NONE /\ prev.op = "Array::plus"
    /\ receiver = prev.out /\ operand = prev.operand
    /\ prev.receiver.len = prev.operand.len

\* x + y is finite and needs no rounding.
AddIsExact(x, y) ==
    /\ IsFinite(x) /\ IsFinite(y)
    /\ \/ x.m = 0
       \/ y.m = 0
       \/ LET e   == IF x.e < y.e THEN x.e ELSE y.e
              sum == (IF x.s = 1 THEN -1 ELSE 1) * x.m * Pow2(x.e - e)
                     + (IF y.s = 1 THEN -1 ELSE 1) * y.m * Pow2(y.e - e)
          IN sum = 0 \/ BitLen(Canon(0, Abs(sum), 0).m) <= Precision

\* C9 (as the specification states it): for all Arrays a and b of equal
\* length, a.plus(b).minus(b) equals (==) a.
C9_PlusMinusRoundTrip ==
    PlusThenMinus => (IsArray(out) /\ Array_eq(out, prev.receiver))

\* C9 (amended): for all Arrays a and b of equal length with finite
\* elements, where no a[i] + b[i] needs rounding, a.plus(b).minus(b)
\* equals (==) a.
C9_PlusMinusRoundTripExact ==
    (/\ PlusThenMinus
     /\ \A i \in 1..prev.receiver.len :
            AddIsExact(prev.receiver.arr[i], prev.operand.arr[i]))
        => (IsArray(out) /\ Array_eq(out, prev.receiver))

\* a.plus(b).minus(b) has returned for Arrays of two elements whose sums
\* need no rounding, a[0] and b[0] not zero.
C9_ExactRoundTripDone ==
    /\ PlusThenMinus /\ prev.receiver.len = 2 /\ IsArray(out)
    /\ \A i \in 1..2 : AddIsExact(prev.receiver.arr[i], prev.operand.arr[i])
    /\ ~IsZero(prev.receiver.arr[1]) /\ ~IsZero(prev.operand.arr[1])

---------------------------------------------------------------------------
(* Properties: bounds checks *)

ArrayAccessors == {"Array::get", "Array::set", "Array::index", "Array::index_mut"}
MatrixAccessors == {"Matrix::get", "Matrix::set", "Matrix::index", "Matrix::index_mut"}

\* C10: Array get(i), set(v, i) and [] (read or write) with i >= length,
\* i == length included, fail fatally; Matrix get(i,j), set(v,i,j) and [i][j]
\* fail fatally when i >= rows or j >= cols; no access reads or writes a slot
\* outside the buffer.
C10_BoundsChecked ==
    /\ out # OUT_OF_BUFFER
    /\ (op \in ArrayAccessors /\ arg.index >= receiver.len) => out = PANIC
    /\ (op \in MatrixAccessors /\ (arg.i >= receiver.rows \/ arg.j >= receiver.cols))
           => out = PANIC
    /\ (op \in {"Array::set", "Array::index_mut"} /\ out # PANIC)
           => (out.len = receiver.len /\ Len(out.arr) = Len(receiver.arr))

\* An Array that is not empty has been read at the index equal to its length.
C10_ReadAtLength ==
    /\ op \in {"Array::get", "Array::index"}
    /\ receiver.len > 0 /\ arg.index = receiver.len
    /\ out = PANIC

---------------------------------------------------------------------------
(* Properties: Array::splice *)

\* C11: Array::splice(first, last) returns an Array of length last - first
\* whose element i is self[first + i] whenever first < last <= length, and
\* fails fatally whenever first >= last or last > length.
C11_Splice ==
    op = "Array::splice" =>
        IF arg.first < arg.last /\ arg.last <= receiver.len
        THEN /\ IsArray(out)
             /\ out.len = arg.last - arg.first /\ Len(out.arr) = out.len
             /\ \A i \in 0..(out.len - 1) :
                    out.arr[i + 1] = receiver.arr[arg.first + i + 1]
        ELSE out = PANIC

\* A splice that starts after element 0 has returned an Array that differs
\* from the front of the receiver.
C11_SpliceOfTail ==
    /\ op = "Array::splice" /\ arg.first > 0 /\ arg.last = receiver.len
    /\ IsArray(out) /\ out.arr[1] # receiver.arr[1]

---------------------------------------------------------------------------
(* Properties: Matrix::new *)

\* Two of the rows of the collection differ in length.
Ragged(slice) ==
    \E i \in 1..Len(slice), j \in 1..Len(slice) : slice[i].len # slice[j].len

\* C12 (as the specification states it): Matrix::new fails fatally whenever
\* two rows differ in length; when all rows have the same length L it
\* succeeds with rows = the number of Arrays and cols = L.
C12_NewRectangular ==
    op = "Matrix::new" =>
        IF Ragged(arg.slice) THEN out = PANIC
        ELSE /\ IsMatrix(out)
             /\ out.rows = Len(arg.slice)
             /\ \A i \in 1..Len(arg.slice) : out.cols = arg.slice[i].len

\* C12 (amended): Matrix::new fails fatally whenever the collection is
\* empty or two rows differ in length; when there is at least one row and
\* all rows have the same length L it succeeds with rows = the number of
\* Arrays and cols = L, holding the rows given.
C12_NewRectangularNonEmpty ==
    op = "Matrix::new" =>
        IF Len(arg.slice) = 0 \/ Ragged(arg.slice) THEN out = PANIC
        ELSE /\ IsMatrix(out)
             /\ out.rows = Len(arg.slice)
             /\ \A i \in 1..Len(arg.slice) : out.cols = arg.slice[i].len
             /\ out.arrays = arg.slice

\* Matrix::new has rejected two rows of different lengths, both not empty.
C12_RaggedRejected ==
    /\ op = "Matrix::new" /\ Len(arg.slice) = 2
    /\ arg.slice[1].len > 0 /\ arg.slice[2].len > arg.slice[1].len
    /\ out = PANIC

---------------------------------------------------------------------------
(* Properties: Matrix plus, minus, elem_mult *)

\* self(i,j) (+, -, x) other(i,j) for the operation called, i and j counted
\* from 1.
EntryOf(i, j) ==
    LET x == receiver.arrays[i].arr[j]
        y == operand.arrays[i].arr[j]
    IN IF op = "Matrix::plus" THEN fadd(x, y)
       ELSE IF op = "Matrix::minus" THEN fsub(x, y)
       ELSE fmul(x, y)

\* C13: Matrix plus, minus and elem_mult fail fatally whenever the operands
\* differ in rows or in cols; for operands of one shape they return a Matrix
\* of that shape whose entry (i,j) is self(i,j) (+, -, x) other(i,j).
C13_MatrixElementwise ==
    op \in {"Matrix::plus", "Matrix::minus", "Matrix::elem_mult"} =>
        IF receiver.rows # operand.rows \/ receiver.cols # operand.cols
        THEN out = PANIC
        ELSE /\ IsMatrix(out)
             /\ out.rows = receiver.rows /\ out.cols = receiver.cols
             /\ Len(out.arrays) = out.rows
             /\ \A i \in 1..out.rows :
                    /\ out.arrays[i].len = out.cols
                    /\ \A j \in 1..out.cols : out.arrays[i].arr[j] = EntryOf(i, j)

\* Two Matrices of one shape, two rows at least, have been subtracted, and
\* the difference is neither operand.
C13_SameShapeSubtracted ==
    /\ op = "Matrix::minus" /\ IsMatrix(out) /\ out.rows >= 2 /\ out.cols >= 2
    /\ out # receiver /\ out # operand

---------------------------------------------------------------------------
(* Properties: operands and results in memory *)

\* The statement just executed is a call of an arithmetic operation.
Arithmetic == op = "let" /\ arg.fn \in Transformations

\* The statement just executed stores into the value that the statement
\* before it, a call of an arithmetic operation, returned.
StoreToResult ==
    /\ op = "store" /\ prev # NONE /\ prev.op = "let"
    /\ prev.arg.fn \in Transformations
    /\ "value" \in DOMAIN prev.out /\ arg.self = prev.out.value

NoSharedBuffer ==
    \A i \in 1..Len(vals), j \in 1..Len(vals) :
        i # j => Buffers(heap, vals[i]) \cap Buffers(heap, vals[j]) = {}

\* C15: after any constructions, clone and transformation no two Array or
\* Matrix values share a buffer, and a set or set_row through one value
\* changes nothing that is read through any other value.
C15_NoAliasing ==
    /\ NoSharedBuffer
    /\ op = "store" =>
         \A i \in 1..Len(vals) :
             i # arg.self => ValueAt(heap, vals[i]) = receiver[i]

---------------------------------------------------------------------------
(* Properties: Matrix::set_row *)

\* C16: m.set_row(x, row) with x no longer than m has columns returns, and
\* with offset = cols - x.len it leaves in cell offset + e of that row the
\* element e of x, and leaves the first offset cells of the row, every
\* other row and the shape of m as they were.
C16_SetRowRightAligned ==
    (op = "store" /\ arg.fn = "Matrix::set_row"
        /\ arg.row < receiver[arg.self].rows
        /\ receiver[arg.other].len <= receiver[arg.self].cols) =>
        LET before == receiver[arg.self]
            x      == receiver[arg.other]
            after  == ValueAt(heap, vals[arg.self])
            offset == before.cols - x.len
        IN /\ out = OK
           /\ after.rows = before.rows /\ after.cols = before.cols
           /\ \A r \in 1..before.rows :
                /\ after.arrays[r].len = before.arrays[r].len
                /\ \A c \in 1..before.cols :
                     after.arrays[r].arr[c] =
                        IF r = arg.row + 1 /\ c > offset
                        THEN x.arr[c - offset]
                        ELSE before.arrays[r].arr[c]

\* A set_row of an Array shorter than the row returned and changed the row
\* while its first cell kept its value.
C16_ShorterRowSet ==
    /\ op = "store" /\ arg.fn = "Matrix::set_row" /\ out = OK
    /\ receiver[arg.other].len < receiver[arg.self].cols
    /\ ValueAt(heap, vals[arg.self]) # receiver[arg.self]
    /\ ValueAt(heap, vals[arg.self]).arrays[arg.row + 1].arr[1]
          = receiver[arg.self].arrays[arg.row + 1].arr[1]

---------------------------------------------------------------------------
(* Properties: the solver on inputs outside its precondition *)

\* A has as many columns as rows.
Square(A) == A.rows = A.cols

\* C17: gauss_elimination(A, b) fails fatally whenever A is not square or
\* the length of b differs from the number of rows of A; it returns no
\* Array for such inputs.
C17_ShapeMismatchFatal ==
    (GaussReturned /\ (~Square(receiver) \/ operand.len # receiver.rows))
        => out = PANIC

\* The call is on a square A that is singular (its determinant, over the
\* integers, is 0) and a b as long as A has rows.
SingularSystem ==
    /\ Square(receiver) /\ operand.len = receiver.rows
    /\ Det(arg.A) = 0

\* The reduced Matrix that forward elimination hands to back substitution
\* has a diagonal entry that is exactly zero.
ZeroOnDiagonal == \E i \in 1..receiver.rows : IsZero(a.arrays[i].arr[i])

\* The Array returned has an entry that is not finite.
NonFiniteEntry == \E i \in 1..out.len : ~IsFinite(out.arr[i])

\* C18 (as the specification states it): for every singular n x n A and
\* every b of length n, gauss_elimination raises no error: the reduced
\* Matrix that forward elimination hands to back substitution has a
\* diagonal entry that is exactly zero, and the Array returned has length n
\* and at least one entry that is not finite.
C18_SingularNonFinite ==
    (GaussReturned /\ SingularSystem) =>
        /\ IsArray(out) /\ out.len = receiver.rows
        /\ ZeroOnDiagonal
        /\ NonFiniteEntry

\* C18 (amended): for every n x n A, singular ones among them, and every b
\* of length n, gauss_elimination raises no error and returns an Array of
\* length n; whenever the reduced Matrix has a diagonal entry that is
\* exactly zero, that Array has at least one entry that is not finite.
C18_ZeroDiagonalNonFinite ==
    (GaussReturned /\ Square(receiver) /\ operand.len = receiver.rows) =>
        /\ IsArray(out) /\ out.len = receiver.rows
        /\ ZeroOnDiagonal => NonFiniteEntry

\* A call on a singular A returned an Array with an entry that is not
\* finite, from a reduced Matrix with a zero on its diagonal.
C18_SingularDividedByZero ==
    /\ GaussReturned /\ SingularSystem /\ receiver.rows = 2
    /\ IsArray(out) /\ ZeroOnDiagonal /\ NonFiniteEntry

---------------------------------------------------------------------------
(* Properties: the pivot search *)

\* The loop of row_echelon_form is about to search the pivot of column k
\* among the rows h..m-1.
PivotSearch ==
    /\ op = "gauss_elimination" /\ pc = "ref"
    /\ h < Matrix_dimensions(a)[1] /\ k < Matrix_dimensions(a)[2]

\* |a[i][k]|
AbsAt(i) == abs(Matrix_index2(a, i, k))

\* The rows among h..m-1 whose absolute value in column k is maximal.
MaximalRows ==
    {i \in h..(a.rows - 1) :
        \A j \in h..(a.rows - 1) : fle(AbsAt(j), AbsAt(i))}

\* C19: when one or several rows in h..rows attain the maximal absolute
\* value in column k, the pivot row that argmax selects is the first of
\* them, the one of lowest index.
C19_FirstMaximalRow ==
    (PivotSearch /\ MaximalRows # {}) =>
        \A i \in MaximalRows : argmax(h, a.rows, a, k).max_arg <= i

---------------------------------------------------------------------------
(* Properties: binomial_coefficient *)

\* C20: binomial_coefficient(n, 0) returns 1 for every n >= 0.
C20_BinomialOfZeroIsOne ==
    (op = "binomial_coefficient" /\ arg.k = 0) => out = [usize |-> 1]

---------------------------------------------------------------------------
(* Properties: back substitution *)

\* R is an augmented n x (n+1) Matrix of finite entries, upper triangular
\* with a non-zero diagonal.
UpperTriangular(R) ==
    /\ IsMatrix(R) /\ R.cols = R.rows + 1 /\ AllFinite(R)
    /\ \A i \in 1..R.rows :
         /\ ~IsZero(R.arrays[i].arr[i])
         /\ \A j \in 1..(i - 1) : IsZero(R.arrays[i].arr[j])

RECURSIVE RowSum(_, _, _, _)
\* The sum over the unknowns j .. n-1 of R[i][j] * x[j] (indices from 1 here).
RowSum(R, x, i, j) ==
    IF j > R.rows THEN Zero(0)
    ELSE fadd(fmul(R.arrays[i].arr[j], x.arr[j]), RowSum(R, x, i, j + 1))

\* C21: for every augmented n x (n+1) Matrix R that is upper triangular
\* with a non-zero diagonal, the x that back substitution returns satisfies
\* every row: R[i][i] x[i] + the sum over j in i+1..n-1 of R[i][j] x[j]
\* equals R[i][n], within Tolerance.
C21_BackSubstitutionSolves ==
    (GaussReturned /\ UpperTriangular(a) /\ IsArray(out)) =>
        \A i \in 1..a.rows :
            fle(FAbs(fsub(RowSum(a, out, i, i), a.arrays[i].arr[a.cols])),
                Tolerance)

---------------------------------------------------------------------------
(* Properties: forward elimination *)

\* row_echelon_form has returned the Matrix a.
RefReturned == op = "gauss_elimination" /\ pc = "back"

\* The column (from 1) of the leading non-zero entry of row i of R, or
\* R.cols + 1 for a row of zeros.
Lead(R, i) ==
    LET nz == {j \in 1..R.cols : ~IsZero(R.arrays[i].arr[j])}
    IN IF nz = {} THEN R.cols + 1
       ELSE CHOOSE j \in nz : \A j2 \in nz : j <= j2

\* R is in row echelon form.
Echelon(R) ==
    /\ \A i \in 2..R.rows :
         Lead(R, i) <= R.cols => Lead(R, i - 1) < Lead(R, i)
    /\ \A i \in 1..R.rows :
         Lead(R, i) <= R.cols =>
            \A r \in (i + 1)..R.rows : IsZero(R.arrays[r].arr[Lead(R, i)])
    /\ \A i \in 1..(R.rows - 1) :
         Lead(R, i) > R.cols => Lead(R, i + 1) > R.cols

\* C22: the Matrix that row_echelon_form returns is in row echelon form:
\* the leading non-zero entry of each non-zero row lies strictly to the
\* right of that of the row above, every entry below a leading entry is
\* exactly 0, and the rows of zeros come last.
C22_RowEchelonForm == RefReturned => Echelon(a)

\* row_echelon_form has returned a Matrix that differs from its input: rows
\* were swapped or updated.
C22_Reduced ==
    /\ RefReturned /\ a.rows = 2 /\ Echelon(a)
    /\ a # Matrix_augment(receiver, operand)
    /\ ~Echelon(Matrix_augment(receiver, operand))

---------------------------------------------------------------------------
(* Properties: partial pivoting *)

\* The magnitude of a[i][k], rows and columns from 0.
Magnitude(i) == FAbs(Matrix_index2(a, i, k))

\* The row that argmax selects in the iteration about to run.
Selected == argmax(h, a.rows, a, k).max_arg

\* The elimination factor of row i once rows h and Selected are swapped.
Factor(i) ==
    LET swapped == Matrix_swap_rows(a, h, Selected)
    IN fdiv(Matrix_index2(swapped, i, k), Matrix_index2(swapped, h, k))

\* C23: at every elimination step with cursors (h, k) the row that argmax
\* returns lies in h..rows, its absolute value in column k is at least that
\* of every row in h..rows, and when that pivot is not zero every
\* elimination factor f of the step satisfies |f| <= 1.
C23_PivotIsMaximal ==
    PivotSearch =>
        /\ argmax(h, a.rows, a, k) # PANIC
        /\ h <= Selected /\ Selected < a.rows
        /\ \A i \in h..(a.rows - 1) : fle(Magnitude(i), Magnitude(Selected))
        /\ ~IsZero(Matrix_index2(a, Selected, k)) =>
             \A i \in (h + 1)..(a.rows - 1) : fle(FAbs(Factor(i)), FromInt(1))

\* A step in which the pivot is a row below h, of strictly greater
\* magnitude than row h, and the factor of the row below is not zero.
C23_LowerRowSelected ==
    /\ PivotSearch /\ h < Selected
    /\ ~fle(Magnitude(Selected), Magnitude(h))
    /\ ~IsZero(Factor(h + 1))

---------------------------------------------------------------------------
(* Properties: the cursors of forward elimination *)

\* The pivot value a[i_max][k] of the iteration about to run is exactly zero.
ZeroPivot == PivotSearch /\ IsZero(Matrix_index2(a, Selected, k))

\* C24: an iteration of forward elimination whose selected pivot value is
\* exactly zero advances k by one and changes nothing else: h is unchanged,
\* no rows are swapped and no cell of the Matrix is modified.
C24_ZeroPivotSkip ==
    [][ZeroPivot => (k' = k + 1 /\ h' = h /\ a' = a /\ pc' = "ref")]_vars

\* A column has been skipped: the column cursor is ahead of the row cursor
\* in a Matrix that is not all zeros.
C24_ColumnSkipped ==
    /\ op = "gauss_elimination" /\ pc = "ref" /\ k > h
    /\ \E i \in 1..a.rows : \E j \in 1..a.cols : ~IsZero(a.arrays[i].arr[j])

\* The loop of row_echelon_form is running on the Matrix a.
InLoop == op = "gauss_elimination" /\ pc = "ref"

\* C25: forward elimination terminates: every iteration advances k by
\* exactly one, h <= k always holds and k never exceeds cols, so the loop
\* runs at most cols iterations; it is left in a state where h = rows or
\* k = cols, and it is always left.
C25_EliminationTerminates ==
    /\ [][(PivotSearch /\ pc' = "ref") => k' = k + 1]_vars
    /\ [](InLoop => (h <= k /\ k <= a.cols /\ h <= a.rows))
    /\ [](RefReturned => (h = a.rows \/ k = a.cols))
    /\ InLoop ~> (pc # "ref")

\* The loop has been left after as many iterations as the augmented Matrix
\* has columns, one of them a skipped column.
C25_LoopLeftAtLastColumn ==
    RefReturned /\ k = a.cols /\ h < k /\ a.rows >= 2

---------------------------------------------------------------------------
(* Properties: failed stores *)

\* C26: a store that fails fatally leaves no partial result: after a set
\* or set_row that failed (a set_row of an Array longer than the row, or
\* on a row that does not exist, among them), what is read through every
\* value is what was read before the call.
C26_FailedStoreChangesNothing ==
    (op = "store" /\ out = PANIC) =>
        \A i \in 1..Len(vals) : ValueAt(heap, vals[i]) = receiver[i]

---------------------------------------------------------------------------
(* Properties: Matrix::to_string *)

\* The number of separators among the pieces of a text.
Separators(string) == Cardinality({i \in 1..Len(string) : string[i] = Separator})

\* C27: for every rows x cols Matrix with cols >= 1, the text that
\* to_string returns holds one dump per row and exactly rows - 1
\* separators, whatever cols is.
C27_SeparatorsBetweenRows ==
    (op = "Matrix::to_string" /\ receiver.cols >= 1) =>
        /\ out # PANIC
        /\ Len(out.string) = 2 * receiver.rows + 1
        /\ Separators(out.string) = receiver.rows - 1

---------------------------------------------------------------------------
(* Properties: the shape of a Matrix *)

\* M has at least one row and one column and holds exactly rows Arrays of
\* exactly cols elements each, the shape that dimensions() reports.
WellShaped(M) ==
    /\ M.rows >= 1 /\ M.cols >= 1
    /\ Matrix_dimensions(M) = <<M.rows, M.cols>>
    /\ Len(M.arrays) = M.rows
    /\ \A i \in 1..Len(M.arrays) :
         M.arrays[i].len = M.cols /\ Len(M.arrays[i].arr) = M.cols

\* The calls that return a Matrix.
MatrixMakers ==
    {"Matrix::new", "Matrix::identity", "Matrix::plus", "Matrix::minus",
     "Matrix::elem_mult", "Matrix::transpose", "Matrix::mult"}

\* C28: every Matrix that a constructor or a transformation returns
\* without a fatal error, and every Matrix of a client program, after a
\* set or set_row too, has rows >= 1 and cols >= 1 and holds exactly rows
\* Arrays of exactly cols elements, as dimensions() reports.
C28_MatrixShape ==
    /\ (op \in MatrixMakers /\ IsMatrix(out)) => WellShaped(out)
    /\ \A i \in 1..Len(vals) :
         IsMatrix(vals[i]) => WellShaped(ValueAt(heap, vals[i]))

---------------------------------------------------------------------------
(* Properties: the solution set during forward elimination.  Finite values
   are compared exactly here, as the integers v * 2^(e - e0) for an e0 no
   greater than any exponent involved. *)

\* The signed significand of the finite value x.
Signed(x) == IF x.s = 1 THEN -x.m ELSE x.m

\* The least of a non-empty set of integers.
Least(S) == CHOOSE e \in S : \A e2 \in S : e <= e2

\* The integer x * 2^(-e0), for e0 <= x.e.
Scaled(x, e0) == Signed(x) * Pow2(x.e - e0)

RECURSIVE ScaledSum(_, _, _, _)
\* The sum over the unknowns j..n of row[j] * x[j], times 2^(-e0).
ScaledSum(row, x, j, e0) ==
    IF j > Len(x) THEN 0
    ELSE Scaled(row[j], e0) * x[j] + ScaledSum(row, x, j + 1, e0)

\* The integers x solve, exactly, every equation of the augmented Matrix M.
Satisfies(M, x) ==
    \A i \in 1..M.rows :
        LET row == M.arrays[i].arr
            e0  == Least({row[j].e : j \in 1..M.cols})
        IN ScaledSum(row, x, 1, e0) = Scaled(row[M.cols], e0)

\* The candidate solutions the systems are tested with.
Candidates(n) == [1..n -> -1..2]

\* The augmented Matrix that gauss_elimination built from its arguments.
Original == Matrix_augment(receiver, operand)

\* C29 (as stated): at every iteration of row_echelon_form, and when it
\* returns, an x satisfies the current augmented system if and only if it
\* satisfies the original augmented system [A | b].
C29_SolutionSetPreserved ==
    (InLoop \/ RefReturned) =>
        \A x \in Candidates(a.cols - 1) :
            Satisfies(a, x) <=> Satisfies(Original, x)

\* The Matrix of the iteration about to run once rows h and Selected are
\* swapped.
Swapped == Matrix_swap_rows(a, h, Selected)

\* x * y = u * v - w * z, exactly, for finite values.
ExactDifference(x, y, u, v, w, z) ==
    LET e0 == Least({x.e + y.e, u.e + v.e, w.e + z.e})
    IN Signed(x) * Signed(y) * Pow2(x.e + y.e - e0)
         = Signed(u) * Signed(v) * Pow2(u.e + v.e - e0)
           - Signed(w) * Signed(z) * Pow2(w.e + z.e - e0)

\* The iteration that runs stores, in every cell it computes, the exact
\* value of a[i][j] - a[h][j] * a[i][k] / a[h][k]: no rounding takes place.
ExactUpdate ==
    \A i \in (h + 1)..(a.rows - 1) : \A j \in (k + 1)..(a.cols - 1) :
        ExactDifference(Matrix_index2(Swapped, h, k), Matrix_index2(a', i, j),
                        Matrix_index2(Swapped, h, k), Matrix_index2(Swapped, i, j),
                        Matrix_index2(Swapped, i, k), Matrix_index2(Swapped, h, j))

\* C29 (amended): an iteration of row_echelon_form that skips a column, or
\* whose row updates are all exact, preserves the solution set: an x
\* satisfies the augmented system after it if and only if it satisfies the
\* system before it.  An update that is rounded can change the solution set.
C29_ExactStepsPreserve ==
    [][(PivotSearch /\ pc' = "ref" /\ (ZeroPivot \/ ExactUpdate)) =>
          \A x \in Candidates(a.cols - 1) :
              Satisfies(a, x) <=> Satisfies(a', x)]_vars

\* Iterations have changed the Matrix, and a candidate that solves the
\* original system solves the current one.
C29_ReducedAndSolved ==
    /\ InLoop /\ h >= 1 /\ a.rows >= 2 /\ a # Original
    /\ \E x \in Candidates(a.cols - 1) :
         Satisfies(Original, x) /\ Satisfies(a, x)

\* The call is on a square A that is non-singular (its determinant, over
\* the integers, is not 0) and a b as long as A has rows.
NonSingularSystem ==
    /\ Square(receiver) /\ operand.len = receiver.rows
    /\ Det(arg.A) # 0

\* C30: for every non-singular n x n A and every b of length n, forward
\* elimination ends with h = n and with every diagonal entry of the reduced
\* Matrix non-zero, so back substitution divides by no zero and the Array
\* returned has length n and only finite entries.
C30_NonSingularSolved ==
    ((RefReturned \/ GaussReturned) /\ NonSingularSystem) =>
        /\ h = receiver.rows
        /\ ~ZeroOnDiagonal
        /\ GaussReturned => (IsArray(out) /\ out.len = receiver.rows
                                /\ ~NonFiniteEntry)

=============================================================================
